---- MODULE Spec2Model ----
(***************************************************************************)
(* Model of src/main.py: the conversion of directories of per-chapter PDF  *)
(* files into image-based EPUB containers.                                 *)
(*                                                                         *)
(* File names are sequences of one-character strings, so that the pattern  *)
(* search, the replacements and the suffix test of the source are computed *)
(* character by character.  Identifiers and zip paths that the program     *)
(* only builds and compares are kept as strings.                           *)
(***************************************************************************)
EXTENDS Integers, Sequences, FiniteSets, TLC

(***************************************************************************)
(* Bounds of the model.                                                    *)
(***************************************************************************)
\* largest number of entries in one source directory (rich single-book runs)
MaxFiles == 2
\* largest number of pages the page renderer returns for one chapter
MaxPages == 2
\* largest number of configured books (multi-book runs)
MaxBooks == 3

(***************************************************************************)
(* Program constants.                                                      *)
(***************************************************************************)
ZIP_STORED == "ZIP_STORED"
ZIP_DEFLATED == "ZIP_DEFLATED"

(***************************************************************************)
(* str and re primitives used by the source, on sequences of characters.   *)
(***************************************************************************)
Digits == <<"0", "1", "2", "3", "4", "5", "6", "7", "8", "9">>

IsDigit(c) == \E d \in 1..10 : Digits[d] = c

\* the value of one decimal digit character
DigitValue(c) == (CHOOSE d \in 1..10 : Digits[d] = c) - 1

\* "".join(chars): the string made of the characters of s
RECURSIVE Join(_)
Join(s) == IF s = <<>> THEN "" ELSE Head(s) \o Join(Tail(s))

\* str(n) for a natural number n, as characters
RECURSIVE Decimal(_)
Decimal(n) ==
    IF n < 10 THEN <<Digits[n + 1]>>
    ELSE Decimal(n \div 10) \o <<Digits[(n % 10) + 1]>>

\* int(s) for a non-empty run of decimal digits (leading zeros allowed)
RECURSIVE IntOf(_)
IntOf(s) ==
    IF s = <<>> THEN 0
    ELSE 10 * IntOf(SubSeq(s, 1, Len(s) - 1)) + DigitValue(s[Len(s)])

\* s.replace(old, new): left to right, non-overlapping occurrences
RECURSIVE Replace(_, _, _)
Replace(s, old, new) ==
    IF Len(s) < Len(old) THEN s
    ELSE IF SubSeq(s, 1, Len(old)) = old
         THEN new \o Replace(SubSeq(s, Len(old) + 1, Len(s)), old, new)
         ELSE <<Head(s)>> \o Replace(Tail(s), old, new)

\* s.strip(): leading and trailing blanks removed
RECURSIVE Strip(_)
Strip(s) ==
    IF s = <<>> THEN s
    ELSE IF Head(s) = " " THEN Strip(Tail(s))
    ELSE IF s[Len(s)] = " " THEN Strip(SubSeq(s, 1, Len(s) - 1))
    ELSE s

\* s.endswith(suffix)
EndsWith(s, suffix) ==
    /\ Len(s) >= Len(suffix)
    /\ SubSeq(s, Len(s) - Len(suffix) + 1, Len(s)) = suffix

\* re.search(r"\d+", s): the leftmost maximal run of digits of s; a match
\* is never empty, so <<>> stands for None (no match)
RECURSIVE DigitRun(_)
DigitRun(s) ==
    IF s = <<>> \/ ~IsDigit(Head(s)) THEN <<>>
    ELSE <<Head(s)>> \o DigitRun(Tail(s))

RECURSIVE SearchDigits(_)
SearchDigits(s) ==
    IF s = <<>> THEN <<>>
    ELSE IF IsDigit(Head(s)) THEN DigitRun(s)
    ELSE SearchDigits(Tail(s))

PDF_SUFFIX == <<".", "p", "d", "f">>

(***************************************************************************)
(* ChapterData                                                             *)
(***************************************************************************)
\* the argument of re.search in ChapterData.__init__
StrippedName(name) ==
    Strip(Replace(Replace(name, <<"C", "h">>, <<>>), PDF_SUFFIX, <<>>))

\* ChapterData.__init__ raises (None has no group()) for such a name
ChapterNumberRaises(name) == SearchDigits(StrippedName(name)) = <<>>

\* ChapterData.chapter_number
ChapterNumber(name) == IntOf(SearchDigits(StrippedName(name)))

\* ChapterData.chapter_title
ChapterTitle(chapter_number) == "Chapter " \o Join(Decimal(chapter_number))

\* ChapterData(name, path); images is what convert_from_path returns for
\* the file (its number of pages)
ChapterData(file) ==
    [name |-> file.name,
     images |-> file.images,
     chapter_number |-> ChapterNumber(file.name),
     chapter_title |-> ChapterTitle(ChapterNumber(file.name))]

\* the page id of create_chapter
PageId(chapter_number, page_number) ==
    Join(Replace(<<"c", "h", "a", "p", "t", "e", "r", "_">>
                 \o Decimal(chapter_number)
                 \o <<"_", "p", "a", "g", "e", "_">>
                 \o Decimal(page_number),
                 <<" ">>, <<>>))

XHTML_MEDIA_TYPE == "application/xhtml+xml"

\* ManifestItem(id, href) with the default media type
DocumentItem(page_id) ==
    [id |-> page_id, href |-> page_id \o ".xhtml", media_type |-> XHTML_MEDIA_TYPE]

\* mutation of ImageItem: the image item reuses the id of the page document
ImageItemSameId(page_id) ==
    [id |-> page_id,
     href |-> "static/" \o page_id \o ".png",
     media_type |-> "image/png"]

\* ManifestItem(id=f"{page_id}_img", href=image_url, media_type="image/png")
ImageItem(page_id) ==
    [id |-> page_id \o "_img",
     href |-> "static/" \o page_id \o ".png",
     media_type |-> "image/png"]

\* mutation of PageWrites: the image is written before its page document
PageWritesImageFirst(page_id) ==
    << [path |-> "OEBPS/static/" \o page_id \o ".png", compress_type |-> ZIP_DEFLATED],
       [path |-> "OEBPS/" \o page_id \o ".xhtml", compress_type |-> ZIP_DEFLATED] >>

\* the two writestr calls of one iteration of create_chapter
PageWrites(page_id) ==
    << [path |-> "OEBPS/" \o DocumentItem(page_id).href, compress_type |-> ZIP_DEFLATED],
       [path |-> "OEBPS/" \o ImageItem(page_id).href, compress_type |-> ZIP_DEFLATED] >>

\* create_chapter: page ids, manifest items and zip writes of a chapter, in
\* the order of the loop over enumerate(images)
RECURSIVE ChapterPageIds(_, _)
ChapterPageIds(chapter, n) ==
    IF n = 0 THEN <<>>
    ELSE Append(ChapterPageIds(chapter, n - 1), PageId(chapter.chapter_number, n))

RECURSIVE ChapterManifestItems(_)
ChapterManifestItems(page_ids) ==
    IF page_ids = <<>> THEN <<>>
    ELSE <<DocumentItem(Head(page_ids)), ImageItem(Head(page_ids))>>
         \o ChapterManifestItems(Tail(page_ids))

RECURSIVE ChapterWrites(_)
ChapterWrites(page_ids) ==
    IF page_ids = <<>> THEN <<>>
    ELSE PageWrites(Head(page_ids)) \o ChapterWrites(Tail(page_ids))

create_chapter(chapter) ==
    LET page_ids == ChapterPageIds(chapter, chapter.images)
    IN  [page_ids |-> page_ids,
         manifest_items |-> ChapterManifestItems(page_ids),
         writes |-> ChapterWrites(page_ids)]

(***************************************************************************)
(* EbookXMLManager                                                         *)
(***************************************************************************)
\* EbookXMLManager.__init__: empty <manifest>, <spine> and no <navMap> yet
EbookXMLManager == [manifest |-> <<>>, spine |-> <<>>, navMap |-> <<>>]

NCX_ITEM ==
    [id |-> "ncx", href |-> "toc.ncx", media_type |-> "application/x-dtbncx+xml"]

\* ManifestItem.to_xml_content_dict: the attributes of one <item>
to_xml_content_dict(item) ==
    [id |-> item.id, href |-> item.href, media_type |-> item.media_type]

RECURSIVE ManifestXml(_)
ManifestXml(manifest_items) ==
    IF manifest_items = <<>> THEN <<>>
    ELSE <<to_xml_content_dict(Head(manifest_items))>>
         \o ManifestXml(Tail(manifest_items))

\* mutation of build_manifest_data: the fixed "ncx" item is left out
build_manifest_data_without_ncx(xml_manager, manifest_items, spine_items) ==
    [xml_manager EXCEPT
        !.manifest = @ \o ManifestXml(manifest_items),
        !.spine = @ \o spine_items]

\* build_manifest_data: the <item>s and <itemref idref=...>s of content.opf
build_manifest_data(xml_manager, manifest_items, spine_items) ==
    [xml_manager EXCEPT
        !.manifest = @ \o <<NCX_ITEM>> \o ManifestXml(manifest_items),
        !.spine = @ \o spine_items]

\* build_ncx_data raises IndexError on chapter_toc.page_ids[0]
NcxRaises(toc) == \E i \in 1..Len(toc) : toc[i].page_ids = <<>>

\* the loop of build_ncx_data, from index chapter_index (0-based in the
\* source) with the running play_order
RECURSIVE NavPoints(_, _, _)
NavPoints(toc, chapter_index, play_order) ==
    IF chapter_index >= Len(toc) THEN <<>>
    ELSE LET chapter_toc == toc[chapter_index + 1]
         IN  << [id |-> "navPoint-" \o Join(Decimal(chapter_index + 1)),
                 playOrder |-> Join(Decimal(play_order)),
                 text |-> chapter_toc.chapter_title,
                 src |-> chapter_toc.page_ids[1] \o ".xhtml"] >>
             \o NavPoints(toc, chapter_index + 1, play_order + 1)

build_ncx_data(xml_manager, toc) ==
    [xml_manager EXCEPT !.navMap = NavPoints(toc, 0, 1)]

(***************************************************************************)
(* EbookManager                                                            *)
(***************************************************************************)
\* EbookManager.chapter_sorting: the sort key, from the raw file name.  It
\* is only applied to names ChapterData accepted, which contain a digit.
chapter_sorting(value) == IntOf(SearchDigits(value.name))

\* sorted(..., key=chapter_sorting) is stable: an element goes behind every
\* element already placed whose key is not larger
RECURSIVE InsertByKey(_, _)
InsertByKey(value, placed) ==
    IF placed = <<>> THEN <<value>>
    ELSE IF chapter_sorting(placed[Len(placed)]) <= chapter_sorting(value)
         THEN Append(placed, value)
         ELSE Append(InsertByKey(value, SubSeq(placed, 1, Len(placed) - 1)),
                     placed[Len(placed)])

RECURSIVE sorted(_)
sorted(values) ==
    IF values = <<>> THEN <<>>
    ELSE InsertByKey(values[Len(values)], sorted(SubSeq(values, 1, Len(values) - 1)))

\* the entries of os.listdir that init_pdf_list keeps
IsPdf(file) == EndsWith(file.name, PDF_SUFFIX)

\* init_pdf_list raises when ChapterData raises for a kept entry
InitPdfListRaises(listing) ==
    \E i \in 1..Len(listing) : IsPdf(listing[i]) /\ ChapterNumberRaises(listing[i].name)

RECURSIVE ChapterDataList(_)
ChapterDataList(listing) ==
    IF listing = <<>> THEN <<>>
    ELSE (IF IsPdf(Head(listing)) THEN <<ChapterData(Head(listing))>> ELSE <<>>)
         \o ChapterDataList(Tail(listing))

\* EbookManager.init_pdf_list
init_pdf_list(listing) == sorted(ChapterDataList(listing))

OutputName(name) == name \o ".epub"

\* EbookManager.__init__
EbookManager(name, listing) ==
    [name |-> name,
     spine |-> <<>>,
     xml_manager |-> EbookXMLManager,
     toc |-> <<>>,
     manifest_items |-> <<>>,
     output_name |-> OutputName(name),
     pdf_files |-> init_pdf_list(listing)]

\* the value of ebook_manager while start() holds no assembler
NoManager ==
    [name |-> "", spine |-> <<>>, xml_manager |-> EbookXMLManager, toc |-> <<>>,
     manifest_items |-> <<>>, output_name |-> "", pdf_files |-> <<>>]

\* ChapterTOC(page_ids, chapter_title)
ChapterTOC(page_ids, chapter_title) ==
    [page_ids |-> page_ids, chapter_title |-> chapter_title]

\* mutation of handle_chapter: the page ids of a chapter are put in front
\* of the spine
handle_chapter_spine_in_front(manager, chapter, created) ==
    [manager EXCEPT
        !.manifest_items = @ \o created.manifest_items,
        !.spine = created.page_ids \o @,
        !.toc = Append(@, ChapterTOC(created.page_ids, chapter.chapter_title))]

\* EbookManager.handle_chapter on the result of create_chapter
handle_chapter(manager, chapter, created) ==
    [manager EXCEPT
        !.manifest_items = @ \o created.manifest_items,
        !.spine = @ \o created.page_ids,
        !.toc = Append(@, ChapterTOC(created.page_ids, chapter.chapter_title))]

MimetypeWrite == [path |-> "mimetype", compress_type |-> ZIP_STORED]

\* writestr without compress_type uses the compression of the ZipFile,
\* which zipfile.ZipFile(name, "w") leaves at ZIP_STORED
ContainerWrite == [path |-> "META-INF/container.xml", compress_type |-> ZIP_STORED]

ManifestWrite == [path |-> "OEBPS/content.opf", compress_type |-> ZIP_DEFLATED]

NavigationWrite == [path |-> "OEBPS/toc.ncx", compress_type |-> ZIP_DEFLATED]

(***************************************************************************)
(* Inputs: the configuration and the source directories.                   *)
(***************************************************************************)
\* "Ch1.pdf", "Ch2.pdf", "Ch10.pdf": one digit group behind "Ch"
\* "Ch01.pdf": the same chapter number as "Ch1.pdf"
\* "1Ch3.pdf": digits on both sides of "Ch"
\* "Chx.pdf": no digit
\* "n1.txt": not a chapter file
FileNames ==
    { <<"C", "h", "1">> \o PDF_SUFFIX,
      <<"C", "h", "2">> \o PDF_SUFFIX,
      <<"C", "h", "1", "0">> \o PDF_SUFFIX,
      <<"C", "h", "0", "1">> \o PDF_SUFFIX,
      <<"1", "C", "h", "3">> \o PDF_SUFFIX,
      <<"C", "h", "x">> \o PDF_SUFFIX,
      <<"n", "1", ".", "t", "x", "t">> }

\* a directory entry: its name and the number of page images that
\* convert_from_path returns for it
Files == [name : FileNames, images : 0..MaxPages]

\* what os.listdir may return for a directory of at most n entries:
\* distinct names, in any order
RECURSIVE Listings(_)
Listings(n) ==
    IF n = 0 THEN {<<>>}
    ELSE LET shorter == Listings(n - 1)
         IN  shorter \cup
             { Append(pf[1], pf[2]) :
                 pf \in { q \in shorter \X Files :
                            \A i \in 1..Len(q[1]) : q[1][i].name # q[2].name } }

\* the directories of the multi-book runs
SmallListings ==
    { <<>>,
      <<[name |-> <<"C", "h", "1">> \o PDF_SUFFIX, images |-> 1]>>,
      <<[name |-> <<"C", "h", "1">> \o PDF_SUFFIX, images |-> 0]>>,
      <<[name |-> <<"C", "h", "x">> \o PDF_SUFFIX, images |-> 1]>> }

\* a configured book: path is "" (no path), "gone" (names no directory) or
\* "dir" (a directory with the given listing); previous tells whether a
\* valid output file of an earlier run exists under the output name
BookInputs(listings) ==
    [path : {"dir"}, listing : listings, previous : BOOLEAN]
    \cup [path : {"", "gone"}, listing : {<<>>}, previous : BOOLEAN]

RECURSIVE Runs(_, _)
Runs(n, inputs) ==
    IF n = 1 THEN { <<b>> : b \in inputs }
    ELSE LET shorter == Runs(n - 1, inputs)
         IN  shorter \cup { Append(pb[1], pb[2]) : pb \in shorter \X inputs }

BookName(i) == "book" \o Join(Decimal(i))

DirPath(i) == "/library/" \o BookName(i)

\* config.get("ebooks"), in the order of the mapping
ConfigOf(run) ==
    [i \in 1..Len(run) |->
        [name |-> BookName(i),
         path |-> IF run[i].path = "dir" THEN DirPath(i)
                  ELSE IF run[i].path = "gone" THEN "/gone/" \o BookName(i)
                  ELSE ""]]

\* the directories that exist, with what os.listdir returns for them
DiskOf(run) ==
    [p \in { DirPath(i) : i \in { j \in 1..Len(run) : run[j].path = "dir" } } |->
        run[CHOOSE i \in 1..Len(run) : DirPath(i) = p].listing]

NoFile == [state |-> "absent", entries |-> <<>>]

\* a complete output of an earlier run; its entries are not looked at
PreviousFile == [state |-> "previous", entries |-> <<>>]

FilesOf(run) ==
    [n \in { OutputName(BookName(i)) : i \in 1..Len(run) } |->
        IF run[CHOOSE i \in 1..Len(run) : OutputName(BookName(i)) = n].previous
        THEN PreviousFile ELSE NoFile]

(***************************************************************************)
(* State.                                                                  *)
(***************************************************************************)
VARIABLES
    config,         \* the "ebooks" mapping of config.yaml, in order
    disk,           \* existing source directories and their listings
    files,          \* the working directory: output name -> file
    pc,             \* where start() is
    book,           \* position of the loop of start() in config
    ebook_manager,  \* the EbookManager of the current book
    chapter,        \* position of the loop of create_ebook in pdf_files
    stdout,         \* the diagnostics printed so far
    raised,         \* the exception that ended the run, "" if none
    managers        \* names of the books an EbookManager was made for

vars ==
    <<config, disk, files, pc, book, ebook_manager, chapter, stdout, raised, managers>>

InitOf(run) ==
    /\ config = ConfigOf(run)
    /\ disk = DiskOf(run)
    /\ files = FilesOf(run)
    /\ pc = "start"
    /\ book = 1
    /\ ebook_manager = NoManager
    /\ chapter = 1
    /\ stdout = <<>>
    /\ raised = ""
    /\ managers = <<>>

\* one configured book, any directory of at most MaxFiles entries
Init == \E run \in Runs(1, BookInputs(Listings(MaxFiles))) : InitOf(run)

\* up to MaxBooks configured books over the small directories
InitRun == \E run \in Runs(MaxBooks, BookInputs(SmallListings)) : InitOf(run)

(***************************************************************************)
(* start()                                                                 *)
(***************************************************************************)
Name == config[book].name

Path == config[book].path

\* an uncaught exception leaves start(): the run is over
Raise(exception) ==
    /\ pc' = "crashed"
    /\ raised' = exception

\* an exception inside the with block: ZipFile.__exit__ closes the archive,
\* which keeps the entries written so far under the output name
RaiseInWith(exception, written) ==
    /\ Raise(exception)
    /\ files' = [files EXCEPT ![ebook_manager.output_name] =
                    [state |-> "closed", entries |-> @.entries \o written]]

\* if not path: print, continue
SkipMissingPath ==
    /\ pc = "start" /\ book <= Len(config)
    /\ Path = ""
    /\ stdout' = Append(stdout, "skipping " \o Name \o ", path is missing")
    /\ book' = book + 1
    /\ UNCHANGED <<config, disk, files, pc, ebook_manager, chapter, raised, managers>>

\* if not os.path.exists(absolute_path): print, continue
SkipNonexistentPath ==
    /\ pc = "start" /\ book <= Len(config)
    /\ Path # "" /\ Path \notin DOMAIN disk
    /\ stdout' = Append(stdout, "skipping " \o Name \o ", path doesn't exists")
    /\ book' = book + 1
    /\ UNCHANGED <<config, disk, files, pc, ebook_manager, chapter, raised, managers>>

\* ebook_manager = EbookManager(name, absolute_path)
NewEbookManager ==
    /\ pc = "start" /\ book <= Len(config)
    /\ Path \in DOMAIN disk
    /\ ~InitPdfListRaises(disk[Path])
    /\ ebook_manager' = EbookManager(Name, disk[Path])
    /\ managers' = Append(managers, Name)
    /\ pc' = "create_ebook"
    /\ UNCHANGED <<config, disk, files, book, chapter, stdout, raised>>

\* EbookManager(...) raises out of ChapterData.__init__
NewEbookManagerError ==
    /\ pc = "start" /\ book <= Len(config)
    /\ Path \in DOMAIN disk
    /\ InitPdfListRaises(disk[Path])
    /\ Raise("AttributeError")
    /\ UNCHANGED <<config, disk, files, book, ebook_manager, chapter, stdout, managers>>

\* the loop over the configured books is exhausted
Finish ==
    /\ pc = "start" /\ book > Len(config)
    /\ pc' = "done"
    /\ UNCHANGED <<config, disk, files, book, ebook_manager, chapter, stdout, raised, managers>>

(***************************************************************************)
(* EbookManager.create_ebook                                               *)
(***************************************************************************)
\* zipfile.ZipFile(self.output_name, "w"): creates or truncates the file
OpenEpubFile ==
    /\ pc = "create_ebook"
    /\ stdout' = Append(stdout, "create_ebook: " \o ebook_manager.name)
    /\ files' = [files EXCEPT ![ebook_manager.output_name] =
                    [state |-> "open", entries |-> <<>>]]
    /\ pc' = "add_mime_type"
    /\ UNCHANGED <<config, disk, book, ebook_manager, chapter, raised, managers>>

Write(written) ==
    files' = [files EXCEPT ![ebook_manager.output_name].entries = @ \o written]

AddMimeType ==
    /\ pc = "add_mime_type"
    /\ Write(<<MimetypeWrite>>)
    /\ pc' = "add_container"
    /\ UNCHANGED <<config, disk, book, ebook_manager, chapter, stdout, raised, managers>>

AddContainer ==
    /\ pc = "add_container"
    /\ Write(<<ContainerWrite>>)
    /\ pc' = "handle_chapter"
    /\ chapter' = 1
    /\ UNCHANGED <<config, disk, book, ebook_manager, stdout, raised, managers>>

\* the prints of create_chapter for the pages before page number n
RECURSIVE PagePrints(_, _)
PagePrints(ch, n) ==
    IF n = 0 THEN <<>>
    ELSE Append(PagePrints(ch, n - 1),
                "creating: " \o ch.chapter_title \o " - Page " \o Join(Decimal(n)))

ChapterPrint(ch) ==
    "creating chapter: " \o ch.chapter_title \o ", with "
        \o Join(Decimal(ch.images)) \o " images"

\* one iteration of the loop over self.pdf_files: handle_chapter
HandleChapter ==
    /\ pc = "handle_chapter" /\ chapter <= Len(ebook_manager.pdf_files)
    /\ LET ch == ebook_manager.pdf_files[chapter]
           created == create_chapter(ch)
       IN  /\ Write(created.writes)
           /\ stdout' = stdout \o <<ChapterPrint(ch)>> \o PagePrints(ch, ch.images)
           /\ ebook_manager' = handle_chapter(ebook_manager, ch, created)
    /\ chapter' = chapter + 1
    /\ UNCHANGED <<config, disk, pc, book, raised, managers>>

\* convert_from_path raises: nothing of the chapter is written
RasterizationError ==
    /\ pc = "handle_chapter" /\ chapter <= Len(ebook_manager.pdf_files)
    /\ RaiseInWith("PDFPageCountError", <<>>)
    /\ UNCHANGED <<config, disk, book, ebook_manager, chapter, stdout, managers>>

\* the loop over self.pdf_files is exhausted
ChaptersDone ==
    /\ pc = "handle_chapter" /\ chapter > Len(ebook_manager.pdf_files)
    /\ pc' = "build"
    /\ UNCHANGED <<config, disk, files, book, ebook_manager, chapter, stdout, raised, managers>>

\* self.build(epub_file) and the print that follows it
Build ==
    /\ pc = "build"
    /\ ~NcxRaises(ebook_manager.toc)
    /\ ebook_manager' =
          [ebook_manager EXCEPT !.xml_manager =
              build_manifest_data(build_ncx_data(@, ebook_manager.toc),
                                  ebook_manager.manifest_items, ebook_manager.spine)]
    /\ Write(<<ManifestWrite, NavigationWrite>>)
    /\ stdout' = Append(stdout, "EPUB created: " \o ebook_manager.output_name)
    /\ pc' = "exit"
    /\ UNCHANGED <<config, disk, book, chapter, raised, managers>>

\* build_ncx_data raises on a chapter without pages
BuildIndexError ==
    /\ pc = "build"
    /\ NcxRaises(ebook_manager.toc)
    /\ RaiseInWith("IndexError", <<>>)
    /\ UNCHANGED <<config, disk, book, ebook_manager, chapter, stdout, managers>>

\* the entries the step at pc is about to write
Pending ==
    CASE pc = "add_mime_type" -> <<MimetypeWrite>>
      [] pc = "add_container" -> <<ContainerWrite>>
      [] pc = "handle_chapter" /\ chapter <= Len(ebook_manager.pdf_files) ->
            create_chapter(ebook_manager.pdf_files[chapter]).writes
      [] pc = "build" /\ ~NcxRaises(ebook_manager.toc) ->
            <<ManifestWrite, NavigationWrite>>
      [] OTHER -> <<>>

\* a writestr call fails (storage failure): the k entries before it are
\* in the archive
WriteError ==
    /\ \E k \in 0..(Len(Pending) - 1) :
          RaiseInWith("OSError", SubSeq(Pending, 1, k))
    /\ UNCHANGED <<config, disk, book, ebook_manager, chapter, stdout, managers>>

\* the with block is left normally; create_ebook returns to start()
CloseEpubFile ==
    /\ pc = "exit"
    /\ files' = [files EXCEPT ![ebook_manager.output_name].state = "closed"]
    /\ pc' = "start"
    /\ book' = book + 1
    /\ UNCHANGED <<config, disk, ebook_manager, chapter, stdout, raised, managers>>

Next ==
    \/ SkipMissingPath
    \/ SkipNonexistentPath
    \/ NewEbookManager
    \/ NewEbookManagerError
    \/ Finish
    \/ OpenEpubFile
    \/ AddMimeType
    \/ AddContainer
    \/ HandleChapter
    \/ RasterizationError
    \/ ChaptersDone
    \/ Build
    \/ BuildIndexError
    \/ WriteError
    \/ CloseEpubFile

Spec == Init /\ [][Next]_vars

SpecRun == InitRun /\ [][Next]_vars

(***************************************************************************)
(* Properties.  The expected values below are written out from the naming  *)
(* scheme of the specification ("chapter_{n}_page_{k}", the zip paths),    *)
(* with ToString for the numbers, and not from the operators above.        *)
(***************************************************************************)
\* create_ebook has returned for the book held in ebook_manager
Completed == ebook_manager # NoManager /\ pc \in {"start", "done"}

\* the archive of the book held in ebook_manager
Epub == files[ebook_manager.output_name]

Range(s) == { s[i] : i \in 1..Len(s) }

Occurrences(s, x) == Cardinality({ i \in 1..Len(s) : s[i] = x })

IsPrefix(s, t) == Len(s) <= Len(t) /\ s = SubSeq(t, 1, Len(s))

ExpectedPageId(n, k) == "chapter_" \o ToString(n) \o "_page_" \o ToString(k)

\* the pages <<n, 1>> .. <<n, k>> of chapter number n
RECURSIVE PagesOf(_, _)
PagesOf(n, k) == IF k = 0 THEN <<>> ELSE Append(PagesOf(n, k - 1), <<n, k>>)

\* the pages of the chapters, chapter by chapter
RECURSIVE OverChapters(_)
OverChapters(chapters) ==
    IF chapters = <<>> THEN <<>>
    ELSE PagesOf(Head(chapters).chapter_number, Head(chapters).images)
         \o OverChapters(Tail(chapters))

RECURSIVE TotalPages(_)
TotalPages(chapters) ==
    IF chapters = <<>> THEN 0 ELSE Head(chapters).images + TotalPages(Tail(chapters))

ExpectedPagePaths(chapters) ==
    LET pages == OverChapters(chapters)
    IN  [i \in 1..(2 * Len(pages)) |->
            LET p == pages[(i + 1) \div 2]
            IN  IF i % 2 = 1
                THEN "OEBPS/" \o ExpectedPageId(p[1], p[2]) \o ".xhtml"
                ELSE "OEBPS/static/" \o ExpectedPageId(p[1], p[2]) \o ".png"]

ExpectedPaths(chapters) ==
    <<"mimetype", "META-INF/container.xml">>
    \o ExpectedPagePaths(chapters)
    \o <<"OEBPS/content.opf", "OEBPS/toc.ncx">>

EntryPaths(entries) == [i \in 1..Len(entries) |-> entries[i].path]

DistinctChapterNumbers(chapters) ==
    \A i, j \in 1..Len(chapters) :
        i # j => chapters[i].chapter_number # chapters[j].chapter_number

\* C1: the entries of a completed archive are, in this order, "mimetype"
\* (stored), "META-INF/container.xml", per chapter in sorted order and per
\* page in page order the page document followed by its image, then
\* "OEBPS/content.opf" and last "OEBPS/toc.ncx"; and at every moment of a
\* build the entries written so far are a prefix of that sequence, so no
\* page is written before the container descriptor or after the package
\* document.
C1_EntryOrder ==
    ebook_manager # NoManager /\ Epub.state \in {"open", "closed"} =>
        /\ IsPrefix(EntryPaths(Epub.entries), ExpectedPaths(ebook_manager.pdf_files))
        /\ Epub.entries # <<>> => Epub.entries[1].compress_type = ZIP_STORED
        /\ Completed => EntryPaths(Epub.entries) = ExpectedPaths(ebook_manager.pdf_files)

\* a completed build of two chapters with pages, one of them with two
W_C1_TwoChapters ==
    /\ Completed
    /\ Len(ebook_manager.pdf_files) = 2
    /\ ebook_manager.pdf_files[1].images = 2
    /\ ebook_manager.pdf_files[2].images = 1
    /\ Len(Epub.entries) = 10

ExpectedSpine(chapters) ==
    LET pages == OverChapters(chapters)
    IN  [i \in 1..Len(pages) |-> ExpectedPageId(pages[i][1], pages[i][2])]

\* C3: after a completed build the spine passed to the package document and
\* the itemrefs emitted in it both equal the concatenation, over the
\* chapters in processing order, of chapter_{n}_page_1 .. chapter_{n}_page_{p},
\* and so have p_1 + ... + p_N elements.
C3_SpineIsConcatenation ==
    Completed =>
        /\ ebook_manager.spine = ExpectedSpine(ebook_manager.pdf_files)
        /\ ebook_manager.xml_manager.spine = ebook_manager.spine
        /\ Len(ebook_manager.xml_manager.spine) = TotalPages(ebook_manager.pdf_files)

\* a completed build whose second chapter restarts at page 1 after a first
\* chapter of two pages
W_C3_PagesRestart ==
    /\ Completed
    /\ Len(ebook_manager.pdf_files) = 2
    /\ ebook_manager.pdf_files[1].images = 2
    /\ ebook_manager.pdf_files[2].images = 2
    /\ Len(ebook_manager.xml_manager.spine) = 4

\* the (chapter number, page number) pairs of the book
BookPages(chapters) == Range(OverChapters(chapters))

ItemsWithId(manifest, id) == { i \in 1..Len(manifest) : manifest[i].id = id }

\* C4: after a completed build of chapters with pairwise distinct chapter
\* numbers, every page id occurs once in the spine and has exactly one
\* document item (id {pageId}, application/xhtml+xml) and one image item
\* (id {pageId}_img, image/png) in the manifest; the manifest ids, "ncx"
\* included, are pairwise distinct; distinct (chapter, page) pairs have
\* distinct page ids; every spine idref is the id of a document item.
C4_IdsUnique ==
    Completed /\ DistinctChapterNumbers(ebook_manager.pdf_files) =>
        LET manifest == ebook_manager.xml_manager.manifest
            spine == ebook_manager.xml_manager.spine
            pages == BookPages(ebook_manager.pdf_files)
        IN  /\ \A p \in pages :
                 LET id == ExpectedPageId(p[1], p[2])
                 IN  /\ Occurrences(spine, id) = 1
                     /\ \E i \in 1..Len(manifest) :
                          /\ ItemsWithId(manifest, id) = {i}
                          /\ manifest[i].media_type = "application/xhtml+xml"
                     /\ \E i \in 1..Len(manifest) :
                          /\ ItemsWithId(manifest, id \o "_img") = {i}
                          /\ manifest[i].media_type = "image/png"
            /\ Len(manifest) = 1 + 2 * Cardinality(pages)
            /\ \A i, j \in 1..Len(manifest) : i # j => manifest[i].id # manifest[j].id
            /\ \E i \in 1..Len(manifest) : manifest[i].id = "ncx"
            /\ \A p, q \in pages : p # q => PageId(p[1], p[2]) # PageId(q[1], q[2])
            /\ \A r \in 1..Len(spine) :
                 \E i \in 1..Len(manifest) :
                    /\ manifest[i].id = spine[r]
                    /\ manifest[i].media_type = "application/xhtml+xml"

\* a completed build of two chapters with different numbers and pages
W_C4_DistinctChapters ==
    /\ Completed
    /\ Len(ebook_manager.pdf_files) = 2
    /\ DistinctChapterNumbers(ebook_manager.pdf_files)
    /\ \A i \in 1..2 : ebook_manager.pdf_files[i].images = 2

\* the entries of the archive that lie under OEBPS/, the package document
\* excepted
ContentEntries(entries) ==
    { i \in 1..Len(entries) :
        entries[i].path \notin {"mimetype", "META-INF/container.xml", "OEBPS/content.opf"} }

ManifestMatchesContainer ==
    LET manifest == ebook_manager.xml_manager.manifest
        entries == Epub.entries
    IN  /\ \A i \in 1..Len(manifest) :
             Cardinality({ e \in 1..Len(entries) :
                             entries[e].path = "OEBPS/" \o manifest[i].href }) = 1
        /\ \A e \in ContentEntries(entries) :
             Cardinality({ i \in 1..Len(manifest) :
                             "OEBPS/" \o manifest[i].href = entries[e].path }) = 1
        /\ Len(manifest) = 1 + 2 * TotalPages(ebook_manager.pdf_files)
        /\ Len(manifest) > Len(ebook_manager.xml_manager.spine)
        /\ Len(ebook_manager.xml_manager.spine) = TotalPages(ebook_manager.pdf_files)

\* C10 as stated: after every completed build each manifest item's
\* "OEBPS/" + href is the path of exactly one archive entry, every entry
\* under OEBPS/ except content.opf is the target of exactly one manifest
\* item, and the manifest has 1 + 2P items, more than the P itemrefs.
CE_C10_EveryBuild == Completed => ManifestMatchesContainer

\* C10 amended: the same, for completed builds of chapters with pairwise
\* distinct chapter numbers.
C10_ManifestMatchesContainer ==
    Completed /\ DistinctChapterNumbers(ebook_manager.pdf_files) =>
        ManifestMatchesContainer

\* a completed build of two distinct chapters, three pages in all
W_C10_DistinctChapters ==
    /\ Completed
    /\ Len(ebook_manager.pdf_files) = 2
    /\ DistinctChapterNumbers(ebook_manager.pdf_files)
    /\ Len(ebook_manager.xml_manager.manifest) = 7
    /\ Len(Epub.entries) = 10

\* the orders in which os.listdir may return the entries of listing
ListingOrders(listing) ==
    { [i \in 1..Len(listing) |-> listing[f[i]]] :
        f \in { g \in [1..Len(listing) -> 1..Len(listing)] :
                  \A i, j \in 1..Len(listing) : i # j => g[i] # g[j] } }

\* the source directory of the book held in ebook_manager
Listing == disk["/library/" \o ebook_manager.name]

\* C2: the chapters of an assembler are in strictly ascending order of
\* their chapter number; the sort key of every chapter equals its chapter
\* number; and the order is the same for every order of the directory
\* listing.
CE_C2_SortedByChapterNumber ==
    ebook_manager # NoManager =>
        LET chapters == ebook_manager.pdf_files
        IN  /\ \A i \in 1..Len(chapters) :
                 chapter_sorting(chapters[i]) = chapters[i].chapter_number
            /\ \A i \in 1..(Len(chapters) - 1) :
                 chapters[i].chapter_number < chapters[i + 1].chapter_number
            /\ \A other \in ListingOrders(Listing) : init_pdf_list(other) = chapters

\* C5: finalizing the navigation document never raises, whatever the page
\* counts, and a completed build has one navPoint per chapter, in chapter
\* order, with playOrder 1..N, the chapter title as label and the first
\* page document of the chapter as content src.
CE_C5_NavPoints ==
    /\ raised # "IndexError"
    /\ Completed =>
          LET navMap == ebook_manager.xml_manager.navMap
              chapters == ebook_manager.pdf_files
          IN  /\ Len(navMap) = Len(chapters)
              /\ \A i \in 1..Len(navMap) :
                    /\ navMap[i].playOrder = ToString(i)
                    /\ navMap[i].text = "Chapter " \o ToString(chapters[i].chapter_number)
                    /\ navMap[i].src =
                          ExpectedPageId(chapters[i].chapter_number, 1) \o ".xhtml"

\* C6: after a build has failed in the page renderer or in a write to the
\* archive, the file under the output name is absent or is the previous
\* valid file.
CE_C6_NoPartialOutput ==
    pc = "crashed" /\ raised \in {"PDFPageCountError", "OSError"} =>
        files[OutputName(config[book].name)].state \in {"absent", "previous"}

PathExists(j) == config[j].path \in DOMAIN disk

\* the output of book j is a closed archive that ends with the navigation
\* document
Built(j) ==
    LET file == files[OutputName(config[j].name)]
    IN  /\ file.state = "closed"
        /\ file.entries # <<>>
        /\ file.entries[Len(file.entries)].path = "OEBPS/toc.ncx"

\* nothing in the directory of book j makes its own build fail
Buildable(j) ==
    /\ PathExists(j)
    /\ ~InitPdfListRaises(disk[config[j].path])
    /\ \A i \in 1..Len(disk[config[j].path]) : disk[config[j].path][i].images > 0

RunEnded == pc \in {"done", "crashed"}

\* C7: when the run has ended and a fatal error occurred in book i, every
\* book after i whose path exists (and whose own build has nothing to fail
\* on) has been built.
CE_C7_RunContinuesAfterError ==
    RunEnded /\ raised # "" =>
        \A j \in (book + 1)..Len(config) : Buildable(j) => Built(j)

\* C8: a build of a directory without any chapter file does not end like a
\* normal build: it does not leave a closed archive under the output name
\* together with the message that the EPUB was created and no other
\* diagnostic.
CE_C8_EmptyDirectoryNotSuccess ==
    Completed /\ ebook_manager.pdf_files = <<>> =>
        \/ Epub.state # "closed"
        \/ "EPUB created: " \o ebook_manager.output_name \notin Range(stdout)
        \/ \E i \in 1..Len(stdout) :
              stdout[i] \notin { "create_ebook: " \o config[b].name : b \in 1..Len(config) }
                  \cup { "EPUB created: " \o OutputName(config[b].name) : b \in 1..Len(config) }
                  \cup { "skipping " \o config[b].name \o ", path is missing" :
                           b \in 1..Len(config) }
                  \cup { "skipping " \o config[b].name \o ", path doesn't exists" :
                           b \in 1..Len(config) }

\* book i was reached by the loop and skipped
Skipped(i) == i < book /\ ~PathExists(i)

\* C9: when the run has ended, for every book that was skipped for its
\* path no assembler and no output file were made, and every other book
\* whose path exists (and whose own build has nothing to fail on) has been
\* built, the assemblers having been made in configuration order.
CE_C9_SkipAndContinue ==
    RunEnded =>
        \A i \in 1..Len(config) :
            Skipped(i) =>
                /\ config[i].name \notin Range(managers)
                /\ files[OutputName(config[i].name)].state \in {"absent", "previous"}
                /\ \A j \in 1..Len(config) : Buildable(j) => Built(j)
                /\ \A a, b \in 1..Len(managers) :
                      a < b => \E x, y \in 1..Len(config) :
                                  /\ x < y
                                  /\ config[x].name = managers[a]
                                  /\ config[y].name = managers[b]
====
